---- MODULE Spec2Model ----
(***************************************************************************)
(* Model of points-to-bq/main_gcf.py: the Pub/Sub driven pipeline that     *)
(* correlates the documents of one order in Cloud Storage, assembles one   *)
(* order row and the item rows with their loyalty points, and appends them *)
(* to two BigQuery tables.                                                 *)
(*                                                                         *)
(* Money is an integer; a rate is an integer number of hundredths          *)
(* (0.05 is 5), so points are in hundredths of a point.  A timestamp is    *)
(* the minute of the week in UTC, Monday 00:00 being 0, which keeps the    *)
(* weekday (datetime.weekday(): Monday 0 .. Sunday 6) and the time of day. *)
(***************************************************************************)
EXTENDS Integers, Sequences, FiniteSets, Bags, TLC

\* ---------------------------------------------------------------- bounds
MaxDeliveries == 2
MaxItens == 2
MaxTokens == 4

Deliveries == 1..MaxDeliveries
Keys == {"k1", "k2"}
Pids == {"p1", "p2"}
Quantidades == {0 - 1, 1, 2}
Valores == {5}
TotaisVenda == {0, 7}

\* ---------------------------------------------------------- configuration
FIDELIDADE_MULTIPLIER == 2
MORNING_MULTIPLIER == 3
HAPPYHOUR_MULTIPLIER == 4

DayMinutes == 1440
WeekMinutes == 10080
SaoPauloOffset == 180

\* Friday 09:00 UTC, which is Friday 06:00 in Sao Paulo
Fri0900Z == 4 * DayMinutes + 9 * 60
\* 2024-03-01T07:30:00Z, a Friday
Fri0730Z == 4 * DayMinutes + 7 * 60 + 30
NoTs == 0 - 1

\* ----------------------------------------------------------------- schemas
\* bigquery.SchemaField(name, type, mode): every column of both schemas is
\* declared with mode="REQUIRED"
SchemaField(name) == [name |-> name, mode |-> "REQUIRED"]

sales_schema ==
    {SchemaField(n) : n \in
        {"uuid", "pedido_id", "timestamp", "pedido_dia", "pedido_numero",
         "cliente_nome", "cliente_cpf", "vendedor_nome", "vendedor_id",
         "pedido_valor", "fidelidade_multiplier", "special_multiplier",
         "final_multiplier", "pedido_pontos", "project_id", "source_identifier",
         "version_control", "processed_timestamp"}}

sales_items_schema ==
    {SchemaField(n) : n \in
        {"uuid", "pedido_id", "produto_idProduto", "timestamp", "pedido_dia",
         "pedido_numero", "cliente_nome", "cliente_cpf", "vendedor_nome",
         "vendedor_id", "produto_descricao", "produto_category_first",
         "produto_category_second", "produto_quantidade", "produto_valor",
         "produto_valor_total", "produto_pontos_multiplier",
         "fidelidade_multiplier", "special_multiplier", "final_multiplier",
         "produto_pontos_total", "project_id", "source_identifier",
         "version_control", "processed_timestamp"}}

\* ------------------------------------------------------- python outcomes
Ret(v) == [kind |-> "return", val |-> v]
Raise(e) == [kind |-> "raise", val |-> e]
IsRaise(r) == r.kind = "raise"

\* --------------------------------------------------------- pure functions

\* convert_to_sao_paulo_time: America/Sao_Paulo is UTC-03:00 (no daylight
\* saving time since 2019), so the local minute of the week is three hours
\* behind, wrapping from Monday morning to Sunday night.
\* the conversion as it would be if the windows were read in UTC
convert_to_sao_paulo_time_UTC(utc_timestamp) == utc_timestamp

convert_to_sao_paulo_time(utc_timestamp) ==
    (utc_timestamp + WeekMinutes - SaoPauloOffset) % WeekMinutes

Weekday(ts) == ts \div DayMinutes
TimeOfDay(ts) == ts % DayMinutes

\* extract_multiplier: obs is the notes text as its sequence of tokens; a
\* token {{d.dd}} is [marker |-> TRUE, val |-> hundredths], anything else
\* has marker FALSE.  re.findall keeps the marker tokens in text order.
RECURSIVE FindAll(_)
FindAll(obs) ==
    IF obs = <<>> THEN <<>>
    ELSE IF Head(obs).marker THEN <<Head(obs).val>> \o FindAll(Tail(obs))
         ELSE FindAll(Tail(obs))

RECURSIVE Min(_)
Min(s) ==
    IF Len(s) = 1 THEN s[1]
    ELSE LET m == Min(Tail(s)) IN IF s[1] <= m THEN s[1] ELSE m

extract_multiplier(obs) ==
    LET matches == FindAll(obs)
    IN IF matches # <<>> THEN Min(matches) ELSE 0

\* logger.warning of line 115, which stands in the branch `if matches:`
extract_multiplier_warns(obs) == FindAll(obs) # <<>>

\* the constructor that `import datetime` would have named: the minute of the day
DatetimeTime_Module(h, m, s) == Ret(h * 60 + m)

\* `datetime` is the class imported by `from datetime import datetime`, so
\* datetime.time(5, 0, 0) is the instance method datetime.datetime.time
\* applied to the int 5: Python raises TypeError before any comparison.
DatetimeTime(h, m, s) == Raise("TypeError")

InMorningWindow(lo, hi, purchase_time) ==
    lo <= purchase_time /\ purchase_time < hi

\* the happy-hour test as it would be without its lower bound
InHappyHourWindow_NoLowerBound(lo, hi, purchase_weekday, purchase_time) ==
    purchase_weekday = 4 /\ purchase_time < hi

InHappyHourWindow(lo, hi, purchase_weekday, purchase_time) ==
    purchase_weekday = 4 /\ lo <= purchase_time /\ purchase_time < hi

RECURSIVE Sum(_)
Sum(s) == IF s = <<>> THEN 0 ELSE Head(s) + Sum(Tail(s))

\* sum(special_multipliers) of line 150
CombineSpecial(special_multipliers) == Sum(special_multipliers)

\* the function as it would be with no rule evaluated
get_special_multiplier_NoRule(processing_timestamp) == Ret(0)

get_special_multiplier(processing_timestamp) ==
    LET sao_paulo_timestamp == convert_to_sao_paulo_time(processing_timestamp)
        purchase_time == TimeOfDay(sao_paulo_timestamp)
        purchase_weekday == Weekday(sao_paulo_timestamp)
        m_lo == DatetimeTime(5, 0, 0)
        m_hi == DatetimeTime(10, 0, 0)
        h_lo == DatetimeTime(18, 0, 0)
        h_hi == DatetimeTime(22, 0, 0)
    IN  IF IsRaise(m_lo) THEN m_lo
        ELSE IF IsRaise(m_hi) THEN m_hi
        ELSE LET rule1 == IF InMorningWindow(m_lo.val, m_hi.val, purchase_time)
                          THEN <<MORNING_MULTIPLIER>> ELSE <<>>
             IN  IF purchase_weekday = 4 /\ IsRaise(h_lo) THEN h_lo
                 ELSE IF purchase_weekday = 4 /\ IsRaise(h_hi) THEN h_hi
                 ELSE LET rule2 == IF InHappyHourWindow(h_lo.val, h_hi.val,
                                                        purchase_weekday, purchase_time)
                                   THEN <<HAPPYHOUR_MULTIPLIER>> ELSE <<>>
                          special_multipliers == rule1 \o rule2
                      IN  IF special_multipliers # <<>>
                          THEN Ret(CombineSpecial(special_multipliers))
                          ELSE Ret(0)

\* ------------------------------------------------------------- documents
\* The JSON content of a stored object.  json is "malformed" (not JSON),
\* "incomplete" (a non-empty object without the fields the extractors
\* read) or "ok"; "None" is what download_json_file returns for a blob it
\* could not parse and "absent" marks a product id with no entry in
\* data['produto'].
Doc(json, itens, totalVenda, obs) ==
    [json |-> json, itens |-> itens, totalVenda |-> totalVenda, obs |-> obs]
NoneDoc == Doc("None", <<>>, 0, <<>>)
AbsentDoc == Doc("absent", <<>>, 0, <<>>)
Truthy(doc) == doc.json \in {"incomplete", "ok"}

Text == [marker |-> FALSE, val |-> 0]
Marker(v) == [marker |-> TRUE, val |-> v]
\* notes of the product documents: "desc {{0.10}} extra {{0.05}}" and "desc"
ObsOf(pid) == IF pid = "p1" THEN <<Text, Marker(10), Text, Marker(5)>> ELSE <<Text>>

PidSeq == <<"p1", "p2">>
DocStates == {"absent", "malformed", "incomplete", "ok"}
ProdStates == {"absent", "malformed", "ok"}

SeqsUpTo(S, n) == UNION {[1..m -> S] : m \in 0..n}
Itens(Qs) == [idProduto : Pids, quantidade : Qs, valor : Valores]

\* the line items of an order that names each product of S once
RECURSIVE OneEach(_, _)
OneEach(S, i) ==
    IF i > Len(PidSeq) THEN <<>>
    ELSE (IF PidSeq[i] \in S
          THEN <<[idProduto |-> PidSeq[i], quantidade |-> 2, valor |-> 5]>> ELSE <<>>)
         \o OneEach(S, i + 1)

\* What the bucket holds for one correlation key.
Scenarios(ItemLists, Tots, Tss) ==
    { s \in [pesquisa : DocStates, pdv : DocStates, tsTag : Tss \cup {NoTs},
             itens : ItemLists, totalVenda : Tots,
             produto : [Pids -> ProdStates]] :
        /\ s.pdv = "absent" => s.tsTag = NoTs
        \* the line items are read only once both completeness tests passed
        /\ ~(s.pesquisa = "ok" /\ s.pdv = "ok" /\ s.tsTag # NoTs) =>
               /\ s.itens = <<>>
               /\ s.totalVenda = CHOOSE t \in Tots : TRUE
        \* and a product document only when a line item names its product
        /\ \A p \in Pids : s.produto[p] # "absent" =>
               \E i \in 1..Len(s.itens) : s.itens[i].idProduto = p }

Blob(uuid, dataType, produtoId, tsTag, content) ==
    [uuid |-> uuid, dataType |-> dataType, produtoId |-> produtoId,
     tsTag |-> tsTag, content |-> content]

RECURSIVE ProdutoBlobs(_, _, _)
ProdutoBlobs(k, s, i) ==
    IF i > Len(PidSeq) THEN <<>>
    ELSE (IF s.produto[PidSeq[i]] = "absent" THEN <<>>
          ELSE <<Blob(k, "produto", PidSeq[i], NoTs,
                      Doc(s.produto[PidSeq[i]], <<>>, 0, ObsOf(PidSeq[i])))>>)
         \o ProdutoBlobs(k, s, i + 1)

BlobsOf(k, s) ==
    (IF s.pesquisa = "absent" THEN <<>>
     ELSE <<Blob(k, "pedidos.pesquisa", "", NoTs, Doc(s.pesquisa, <<>>, 0, <<>>))>>)
    \o (IF s.pdv = "absent" THEN <<>>
        ELSE <<Blob(k, "pdv.pedido", "", s.tsTag,
                    Doc(s.pdv, s.itens, s.totalVenda, <<>>))>>)
    \o ProdutoBlobs(k, s, 1)

\* bucket.list_blobs(): the objects of every correlation key
RECURSIVE ListBlobs(_, _)
ListBlobs(st, ks) ==
    IF ks = {} THEN <<>>
    ELSE LET k == CHOOSE x \in ks : TRUE
         IN  BlobsOf(k, st[k]) \o ListBlobs(st, ks \ {k})

\* ------------------------------------------------------------ correlator
\* download_json_file: json.JSONDecodeError is caught by a clause that also
\* names storage.exceptions.NotFound; when that attribute does not resolve
\* in the installed library the clause itself raises AttributeError.
download_json_file(blob, notFoundResolves) ==
    IF blob.content.json = "malformed"
    THEN IF notFoundResolves THEN Ret(NoneDoc) ELSE Raise("AttributeError")
    ELSE Ret(blob.content)

EmptyData ==
    [pesquisa |-> NoneDoc, pdv |-> NoneDoc, produto |-> [p \in Pids |-> AbsentDoc],
     processing_timestamp |-> NoTs]

RECURSIVE DownloadLoop(_, _, _, _)
DownloadLoop(blobs, uuid, data, nfr) ==
    IF blobs = <<>> THEN Ret(data)
    ELSE LET blob == Head(blobs)
             rest == Tail(blobs)
             got == download_json_file(blob, nfr)
         IN  IF blob.uuid # uuid THEN DownloadLoop(rest, uuid, data, nfr)
             ELSE IF IsRaise(got) THEN got
             ELSE IF blob.dataType = "pedidos.pesquisa"
                  THEN DownloadLoop(rest, uuid, [data EXCEPT !.pesquisa = got.val], nfr)
             ELSE IF blob.dataType = "pdv.pedido"
                  THEN DownloadLoop(rest, uuid,
                         [data EXCEPT !.pdv = got.val,
                                      !.processing_timestamp =
                                          IF blob.tsTag # NoTs THEN blob.tsTag ELSE @], nfr)
             ELSE IF blob.dataType = "produto"
                  THEN DownloadLoop(rest, uuid,
                         [data EXCEPT !.produto[blob.produtoId] = got.val], nfr)
             ELSE DownloadLoop(rest, uuid, data, nfr)

download_json_files(st, uuid, nfr) == DownloadLoop(ListBlobs(st, Keys), uuid, EmptyData, nfr)

\* --------------------------------------------------------- row assembler
\* extract_pesquisa_data / extract_pdv_data: a KeyError is caught and every
\* extracted field is None; the driver only tests the fields for truth.
extract_pesquisa_data(pesquisa_data) ==
    IF pesquisa_data.json = "ok"
    THEN [nome_vendedor |-> "Ana", id_vendedor |-> "v1"]
    ELSE [nome_vendedor |-> "None", id_vendedor |-> "None"]

extract_pdv_data(pdv_data) ==
    IF pdv_data.json = "ok"
    THEN [pedido_id |-> "ped1", pedido_numero |-> "n1", pedido_dia |-> "2024-03-01",
          total_venda |-> pdv_data.totalVenda,
          cliente_nome |-> "Rui", cliente_cpf |-> "cpf1"]
    ELSE [pedido_id |-> "None", pedido_numero |-> "None", pedido_dia |-> "None",
          total_venda |-> 0, cliente_nome |-> "None", cliente_cpf |-> "None"]

\* FIDELIDADE_MULTIPLIER + special_multiplier + produto_multiplier, line 307
FinalMultiplier(special_multiplier, produto_multiplier) ==
    FIDELIDADE_MULTIPLIER + special_multiplier + produto_multiplier

\* process_pedido_item: <<>> for a dropped item (None), <<row>> otherwise.
process_pedido_item(item, pedido, produto_data, processing_timestamp, uuid, pesq, now) ==
    LET produto_id == item.idProduto
        produto == produto_data[produto_id]
    IN  IF Truthy(produto)
        THEN LET produto_multiplier == extract_multiplier(produto.obs)
                 special == get_special_multiplier(processing_timestamp)
             IN  IF IsRaise(special) THEN special
                 ELSE LET final_multiplier == FinalMultiplier(special.val, produto_multiplier)
                          produto_valor_total == item.quantidade * item.valor
                          produto_pontos == produto_valor_total * final_multiplier
                      IN Ret(<<[uuid |-> uuid,
                                timestamp |-> convert_to_sao_paulo_time(processing_timestamp),
                                pedido_dia |-> pedido.pedido_dia,
                                pedido_id |-> pedido.pedido_id,
                                pedido_numero |-> pedido.pedido_numero,
                                cliente_nome |-> pedido.cliente_nome,
                                cliente_cpf |-> pedido.cliente_cpf,
                                vendedor_nome |-> pesq.nome_vendedor,
                                vendedor_id |-> pesq.id_vendedor,
                                produto_idProduto |-> produto_id,
                                produto_descricao |-> "",
                                produto_category_first |-> "",
                                produto_category_second |-> "",
                                produto_quantidade |-> item.quantidade,
                                produto_valor |-> item.valor,
                                produto_valor_total |-> produto_valor_total,
                                produto_multiplier |-> produto_multiplier,
                                fidelidade_multiplier |-> FIDELIDADE_MULTIPLIER,
                                special_multiplier |-> special.val,
                                final_multiplier |-> final_multiplier,
                                produto_pontos |-> produto_pontos,
                                project_id |-> "proj",
                                source_identifier |-> "src",
                                version_control |-> "v",
                                processed_timestamp |-> now]>>)
        ELSE Ret(<<>>)

RECURSIVE ItemsLoop(_, _, _, _, _, _, _)
ItemsLoop(itens, pedido, produto_data, processing_timestamp, uuid, pesq, now) ==
    IF itens = <<>> THEN Ret(<<>>)
    ELSE LET r == process_pedido_item(Head(itens), pedido, produto_data,
                                      processing_timestamp, uuid, pesq, now)
         IN  IF IsRaise(r) THEN r
             ELSE LET rs == ItemsLoop(Tail(itens), pedido, produto_data,
                                      processing_timestamp, uuid, pesq, now)
                  IN  IF IsRaise(rs) THEN rs ELSE Ret(r.val \o rs.val)

SeqMap(F(_), s) == [i \in 1..Len(s) |-> F(s[i])]
ValorTotalOf(row) == row.produto_valor_total
PontosOf(row) == row.produto_pontos

\* the two sums of lines 376-377
PedidoValor(sales_items_rows) == Sum(SeqMap(ValorTotalOf, sales_items_rows))
PedidoPontos(sales_items_rows) == Sum(SeqMap(PontosOf, sales_items_rows))

process_pedido_items(itens, pedido, produto_data, processing_timestamp, uuid, pesq, now) ==
    LET rows == ItemsLoop(itens, pedido, produto_data, processing_timestamp, uuid, pesq, now)
    IN  IF IsRaise(rows) THEN rows
        ELSE Ret([pedido_valor |-> PedidoValor(rows.val),
                  pedido_pontos |-> PedidoPontos(rows.val),
                  sales_items_rows |-> rows.val])

\* the order row as it would be with the order document's own total
prepare_sales_row_DocTotal(uuid, processing_timestamp, pedido, pesq, pedido_valor, pedido_pontos, now) ==
    [uuid |-> uuid,
     timestamp |-> convert_to_sao_paulo_time(processing_timestamp),
     pedido_dia |-> pedido.pedido_dia,
     pedido_id |-> pedido.pedido_id,
     pedido_numero |-> pedido.pedido_numero,
     cliente_nome |-> pedido.cliente_nome,
     cliente_cpf |-> pedido.cliente_cpf,
     vendedor_nome |-> pesq.nome_vendedor,
     vendedor_id |-> pesq.id_vendedor,
     pedido_valor |-> pedido.total_venda,
     fidelidade_multiplier |-> FIDELIDADE_MULTIPLIER,
     pedido_pontos |-> pedido.total_venda * FIDELIDADE_MULTIPLIER,
     project_id |-> "proj",
     source_identifier |-> "src",
     version_control |-> "v",
     processed_timestamp |-> now]

prepare_sales_row(uuid, processing_timestamp, pedido, pesq, pedido_valor, pedido_pontos, now) ==
    [uuid |-> uuid,
     timestamp |-> convert_to_sao_paulo_time(processing_timestamp),
     pedido_dia |-> pedido.pedido_dia,
     pedido_id |-> pedido.pedido_id,
     pedido_numero |-> pedido.pedido_numero,
     cliente_nome |-> pedido.cliente_nome,
     cliente_cpf |-> pedido.cliente_cpf,
     vendedor_nome |-> pesq.nome_vendedor,
     vendedor_id |-> pesq.id_vendedor,
     pedido_valor |-> pedido_valor,
     fidelidade_multiplier |-> FIDELIDADE_MULTIPLIER,
     pedido_pontos |-> pedido_pontos,
     project_id |-> "proj",
     source_identifier |-> "src",
     version_control |-> "v",
     processed_timestamp |-> now]

\* The driver's two completeness tests (lines 533 and 536) and the calls
\* between them: what process_message has in hand before it persists.
Fields(pesq, pedido) ==
    <<pesq.nome_vendedor, pesq.id_vendedor,
      pedido.pedido_id, pedido.pedido_numero, pedido.pedido_dia>>

\* the test of line 533 as it would be without the timestamp
InputsPresent_NoTimestamp(d) ==
    Truthy(d.pesquisa) /\ Truthy(d.pdv)

InputsPresent(d) ==
    Truthy(d.pesquisa) /\ Truthy(d.pdv) /\ d.processing_timestamp # NoTs

Assembled(kind, sales, itens) == [kind |-> kind, sales |-> sales, itens |-> itens]

Assemble(d, uuid, now) ==
    IF ~InputsPresent(d) THEN Assembled("partial", <<>>, <<>>)
    ELSE LET pesq == extract_pesquisa_data(d.pesquisa)
             pedido == extract_pdv_data(d.pdv)
         IN  IF \E i \in 1..5 : Fields(pesq, pedido)[i] = "None"
             THEN Assembled("incomplete", <<>>, <<>>)
             ELSE LET r == process_pedido_items(d.pdv.itens, pedido, d.produto,
                                                d.processing_timestamp, uuid, pesq, now)
                  IN  IF IsRaise(r) THEN Assembled("raise", <<>>, <<>>)
                      ELSE Assembled("rows",
                               <<prepare_sales_row(uuid, d.processing_timestamp, pedido, pesq,
                                                   r.val.pedido_valor, r.val.pedido_pontos, now)>>,
                               r.val.sales_items_rows)

\* ----------------------------------------------------------------- state
VARIABLES
    store,            \* correlation key -> what the bucket holds for it
    pc,               \* delivery -> where its handler stands
    msg,              \* delivery -> the message: payload and timestamp attribute
    data,             \* delivery -> the tuple download_json_files returned
    rows,             \* delivery -> sales_row and sales_items_rows
    log,              \* delivery -> the external calls made so far, in order
    datasetExists,    \* the BigQuery dataset exists
    tableExists,      \* table -> it exists
    salesTable,       \* bag of the rows of the order table
    salesItemsTable,  \* bag of the rows of the item table
    fnCall,           \* the function call under test and its arguments
    fnRet             \* its outcome

vars == <<store, pc, msg, data, rows, log, datasetExists, tableExists,
          salesTable, salesItemsTable, fnCall, fnRet>>

Tables == {"sales", "sales_items"}
NoMsg == [data |-> "", attr |-> "none"]
NoRows == [sales |-> <<>>, itens |-> <<>>]
EmptyScenario ==
    [pesquisa |-> "absent", pdv |-> "absent", tsTag |-> NoTs, itens |-> <<>>,
     totalVenda |-> 0, produto |-> [p \in Pids |-> "absent"]]
NoCall == [fn |-> "none", ts |-> NoTs, doc |-> EmptyScenario, obs |-> <<>>,
           returned |-> FALSE]
\* the notes texts of up to MaxTokens tokens
Notes == SeqsUpTo({Text, Marker(5), Marker(10)}, MaxTokens)

\* The runs of the pipeline take the orders that name each product at most
\* once; the calls of the assembler take every list of up to MaxItens items.
PMScenarios == Scenarios({OneEach(S, 1) : S \in SUBSET Pids}, {7}, {Fri0900Z})
FnScenarios ==
    Scenarios(SeqsUpTo(Itens(Quantidades), MaxItens), TotaisVenda, {Fri0900Z, Fri0730Z})
\* the documents of k1 vary; of the order of k2 only the survey document
\* has been uploaded so far
SurveyOnly == [EmptyScenario EXCEPT !.pesquisa = "ok"]

PipeInit ==
    /\ pc = [d \in Deliveries |-> "idle"]
    /\ msg = [d \in Deliveries |-> NoMsg]
    /\ data = [d \in Deliveries |-> EmptyData]
    /\ rows = [d \in Deliveries |-> NoRows]
    /\ log = [d \in Deliveries |-> <<>>]
    /\ datasetExists = FALSE
    /\ tableExists = [t \in Tables |-> FALSE]
    /\ salesTable = EmptyBag
    /\ salesItemsTable = EmptyBag

\* one complete order: survey, order with a timestamp tag and one line
\* item, and the document of its product
CompleteOrder ==
    [pesquisa |-> "ok", pdv |-> "ok", tsTag |-> Fri0900Z,
     itens |-> <<[idProduto |-> "p1", quantidade |-> 2, valor |-> 5]>>,
     totalVenda |-> 7, produto |-> [p \in Pids |-> IF p = "p1" THEN "ok" ELSE "absent"]]

\* The callback never reads the bucket, so the runs of the program as wired
\* start from one bucket: the complete order of k1.
Init ==
    /\ store = [k \in Keys |-> IF k = "k1" THEN CompleteOrder ELSE SurveyOnly]
    /\ PipeInit
    /\ fnCall = NoCall
    /\ fnRet = Ret(0)

InitPM ==
    /\ \E s \in PMScenarios : store = [k \in Keys |-> IF k = "k1" THEN s ELSE SurveyOnly]
    /\ PipeInit
    /\ fnCall = NoCall
    /\ fnRet = Ret(0)

\* The log of a delivery names its external calls in order; the calls that
\* provision the warehouse are all "warehouse" and a run of them is one event.
Last(s) == s[Len(s)]
Logged(l, event) ==
    IF event # <<>> /\ l # <<>> /\ Last(l) = Head(event) THEN l \o Tail(event)
    ELSE l \o event

Goto(d, to, event) ==
    /\ pc' = [pc EXCEPT ![d] = to]
    /\ log' = [log EXCEPT ![d] = Logged(@, event)]

\* ------------------------------------------------ driver: pubsub_callback
\* A positional call of process_message with nargs arguments: the function
\* is defined with the single parameter `message` (line 522).
ProcessMessageArity == 1
CallProcessMessage(nargs) ==
    IF nargs = ProcessMessageArity THEN Ret(0) ELSE Raise("TypeError")

\* lines 558-561: the subscriber hands a message to the callback
Receive(d) ==
    /\ pc[d] = "idle"
    /\ \E k \in Keys, a \in {"absent", "malformed", "ok"} :
           msg' = [msg EXCEPT ![d] = [data |-> k, attr |-> a]]
    /\ Goto(d, "cb_attrs", <<>>)
    /\ UNCHANGED <<store, data, rows, datasetExists, tableExists,
                   salesTable, salesItemsTable, fnCall, fnRet>>

\* lines 562-563 and 565-566: the attribute test and datetime.fromisoformat
PubsubCallbackParse(d) ==
    /\ pc[d] = "cb_attrs"
    /\ Goto(d, CASE msg[d].attr = "absent" -> "cb_no_ts"
                 [] msg[d].attr = "malformed" -> "cb_except"
                 [] OTHER -> "cb_call", <<>>)
    /\ UNCHANGED <<store, msg, data, rows, datasetExists, tableExists,
                   salesTable, salesItemsTable, fnCall, fnRet>>

\* line 564: process_message(message, processing_timestamp)
PubsubCallbackCall(d) ==
    /\ pc[d] = "cb_call"
    /\ Goto(d, IF IsRaise(CallProcessMessage(2)) THEN "cb_except" ELSE "pm_download", <<>>)
    /\ UNCHANGED <<store, msg, data, rows, datasetExists, tableExists,
                   salesTable, salesItemsTable, fnCall, fnRet>>

\* line 567: message.ack() of the branch without a timestamp attribute
PubsubCallbackAckNoTs(d) ==
    /\ pc[d] = "cb_no_ts"
    /\ Goto(d, "done", <<"ack">>)
    /\ UNCHANGED <<store, msg, data, rows, datasetExists, tableExists,
                   salesTable, salesItemsTable, fnCall, fnRet>>

\* the handler as it would be without line 570
PubsubCallbackExcept_NoAck(d) ==
    /\ pc[d] = "cb_except"
    /\ Goto(d, "done", <<>>)
    /\ UNCHANGED <<store, msg, data, rows, datasetExists, tableExists,
                   salesTable, salesItemsTable, fnCall, fnRet>>

\* lines 568-570: the handler of every exception of the callback
PubsubCallbackExcept(d) ==
    /\ pc[d] = "cb_except"
    /\ Goto(d, "done", <<"ack">>)
    /\ UNCHANGED <<store, msg, data, rows, datasetExists, tableExists,
                   salesTable, salesItemsTable, fnCall, fnRet>>

\* ------------------------------------------------ driver: process_message
\* lines 529-530: message.data.decode('utf-8') stands before the try block,
\* so a payload that is not UTF-8 leaves process_message as an exception.
ProcessMessageStart(d) ==
    /\ pc[d] = "idle"
    /\ \E k \in Keys, decodes \in BOOLEAN :
           /\ msg' = [msg EXCEPT ![d] = [data |-> IF decodes THEN k ELSE "", attr |-> "none"]]
           /\ Goto(d, IF decodes THEN "pm_download" ELSE "raised", <<>>)
    /\ UNCHANGED <<store, data, rows, datasetExists, tableExists,
                   salesTable, salesItemsTable, fnCall, fnRet>>

\* line 532: the scan of the bucket; get_bucket, list_blobs and the
\* downloads may fail, and every exception goes to the handler of line 546.
DownloadJsonFiles(d) ==
    /\ pc[d] = "pm_download"
    /\ \E storeFails \in BOOLEAN, notFoundResolves \in BOOLEAN :
         LET r == download_json_files(store, msg[d].data, notFoundResolves)
         IN  IF storeFails \/ IsRaise(r)
             THEN /\ Goto(d, "pm_ack", <<"store_read">>)
                  /\ UNCHANGED data
             ELSE /\ Goto(d, "pm_assemble", <<"store_read">>)
                  /\ data' = [data EXCEPT ![d] = r.val]
    /\ UNCHANGED <<store, msg, rows, datasetExists, tableExists,
                   salesTable, salesItemsTable, fnCall, fnRet>>

\* datetime.now() of lines 338 and 418: the instant at which delivery d is
\* assembled; the instants of two deliveries differ.
Now(d) == d

\* lines 533-540 and 542-547
AssembleRows(d) ==
    /\ pc[d] = "pm_assemble"
    /\ LET a == Assemble(data[d], msg[d].data, Now(d))
       IN  /\ rows' = [rows EXCEPT ![d] = [sales |-> a.sales, itens |-> a.itens]]
           /\ Goto(d, IF a.kind = "rows" THEN "bq_get_dataset" ELSE "pm_ack",
                   IF a.kind = "partial" THEN <<>> ELSE <<"assemble">>)
    /\ data' = [data EXCEPT ![d] = EmptyData]
    /\ UNCHANGED <<store, msg, datasetExists, tableExists,
                   salesTable, salesItemsTable, fnCall, fnRet>>

\* line 548
Ack(d) ==
    /\ pc[d] = "pm_ack"
    /\ Goto(d, "done", <<"ack">>)
    /\ rows' = [rows EXCEPT ![d] = NoRows]
    /\ UNCHANGED <<store, msg, data, datasetExists, tableExists,
                   salesTable, salesItemsTable, fnCall, fnRet>>

\* ------------------------------------- warehouse writer: load_data_to_bigquery
\* Every client call may raise (transport, permission, a request the
\* service refuses); the handler of line 518 logs it and the function
\* returns, so the handler is left for the ack of line 548.
PcGet(t) == IF t = "sales" THEN "bq_get_sales" ELSE "bq_get_sales_items"
PcCreate(t) == IF t = "sales" THEN "bq_create_sales" ELSE "bq_create_sales_items"
PcAfter(t) == IF t = "sales" THEN "bq_get_sales_items" ELSE "bq_update"

\* lines 433-436: get_dataset, NotFound leads to the creation
GetDataset(d) ==
    /\ pc[d] = "bq_get_dataset"
    /\ \E fails \in BOOLEAN :
         Goto(d, IF fails THEN "pm_ack"
                 ELSE IF datasetExists THEN PcGet("sales") ELSE "bq_create_dataset",
              <<"warehouse">>)
    /\ UNCHANGED <<store, msg, data, rows, datasetExists, tableExists,
                   salesTable, salesItemsTable, fnCall, fnRet>>

\* lines 437-439: create_dataset without exists_ok; a dataset created in
\* the meantime makes the service answer Conflict ("already exists"), which
\* is raised and logged as "conflict".
CreateDataset(d) ==
    /\ pc[d] = "bq_create_dataset"
    /\ \E fails \in BOOLEAN :
         IF fails \/ datasetExists
         THEN /\ Goto(d, "pm_ack", IF fails THEN <<"warehouse">>
                                   ELSE <<"warehouse", "conflict">>)
              /\ UNCHANGED datasetExists
         ELSE /\ Goto(d, PcGet("sales"), <<"warehouse">>)
              /\ datasetExists' = TRUE
    /\ UNCHANGED <<store, msg, data, rows, tableExists,
                   salesTable, salesItemsTable, fnCall, fnRet>>

\* lines 451-455
GetTable(d, t) ==
    /\ pc[d] = PcGet(t)
    /\ \E fails \in BOOLEAN :
         Goto(d, IF fails THEN "pm_ack"
                 ELSE IF tableExists[t] THEN PcAfter(t) ELSE PcCreate(t),
              <<"warehouse">>)
    /\ UNCHANGED <<store, msg, data, rows, datasetExists, tableExists,
                   salesTable, salesItemsTable, fnCall, fnRet>>

\* lines 456-476: create_table without exists_ok
CreateTable(d, t) ==
    /\ pc[d] = PcCreate(t)
    /\ \E fails \in BOOLEAN :
         IF fails \/ tableExists[t]
         THEN /\ Goto(d, "pm_ack", IF fails THEN <<"warehouse">>
                                   ELSE <<"warehouse", "conflict">>)
              /\ UNCHANGED tableExists
         ELSE /\ Goto(d, PcAfter(t), <<"warehouse">>)
              /\ tableExists' = [tableExists EXCEPT ![t] = TRUE]
    /\ UNCHANGED <<store, msg, data, rows, datasetExists,
                   salesTable, salesItemsTable, fnCall, fnRet>>

\* lines 497-505: get_table and update_table for both tables
UpdateTables(d) ==
    /\ pc[d] = "bq_update"
    /\ \E fails \in BOOLEAN :
         Goto(d, IF fails THEN "pm_ack" ELSE "bq_insert_sales", <<"warehouse">>)
    /\ UNCHANGED <<store, msg, data, rows, datasetExists, tableExists,
                   salesTable, salesItemsTable, fnCall, fnRet>>

RECURSIVE SeqToBag(_)
SeqToBag(s) == IF s = <<>> THEN EmptyBag ELSE SetToBag({Head(s)}) (+) SeqToBag(Tail(s))

\* insert_rows_json: a streaming append.  "ok" appends every row, "errors"
\* is a non-empty list of row errors (nothing is appended), "raise" is an
\* exception of the call.
InsertOutcomes == {"ok", "errors", "raise"}
\* an append that enforced the declared primary key of the order table
InsertRowsJson_Dedup(table, json_rows, outcome) ==
    IF outcome = "ok" /\ \A i \in 1..Len(json_rows) : \A r \in BagToSet(table) :
                             ~(r.uuid = json_rows[i].uuid /\ r.pedido_id = json_rows[i].pedido_id)
    THEN table (+) SeqToBag(json_rows) ELSE table

InsertRowsJson(table, json_rows, outcome) ==
    IF outcome = "ok" THEN table (+) SeqToBag(json_rows) ELSE table

\* the order insert as it would be outside the try block of line 489
InsertSales_Propagates(d) ==
    /\ pc[d] = "bq_insert_sales"
    /\ \E outcome \in InsertOutcomes :
         /\ salesTable' = InsertRowsJson(salesTable, rows[d].sales, outcome)
         /\ Goto(d, IF outcome = "raise" THEN "raised" ELSE "bq_insert_items",
                 IF outcome = "ok" THEN <<"insert_sales", "sales_accepted">>
                 ELSE <<"insert_sales">>)
    /\ UNCHANGED <<store, msg, data, rows, datasetExists, tableExists,
                   salesItemsTable, fnCall, fnRet>>

\* lines 507-511
InsertSales(d) ==
    /\ pc[d] = "bq_insert_sales"
    /\ \E outcome \in InsertOutcomes :
         /\ salesTable' = InsertRowsJson(salesTable, rows[d].sales, outcome)
         /\ Goto(d, IF outcome = "raise" THEN "pm_ack" ELSE "bq_insert_items",
                 IF outcome = "ok" THEN <<"insert_sales", "sales_accepted">>
                 ELSE <<"insert_sales">>)
    /\ UNCHANGED <<store, msg, data, rows, datasetExists, tableExists,
                   salesItemsTable, fnCall, fnRet>>

\* lines 513-519
InsertItems(d) ==
    /\ pc[d] = "bq_insert_items"
    /\ \E outcome \in InsertOutcomes :
         /\ salesItemsTable' = InsertRowsJson(salesItemsTable, rows[d].itens, outcome)
         /\ Goto(d, "pm_ack",
                 IF outcome = "ok" THEN <<"insert_items", "items_accepted">>
                 ELSE <<"insert_items">>)
    /\ UNCHANGED <<store, msg, data, rows, datasetExists, tableExists,
                   salesTable, fnCall, fnRet>>

\* ---------------------------------------------------------- specifications
\* The program as main() wires it: pubsub_callback is the subscriber's
\* callback and every delivery runs in its own thread of the pool.
Callback(d) ==
    \/ Receive(d)
    \/ PubsubCallbackParse(d)
    \/ PubsubCallbackCall(d)
    \/ PubsubCallbackAckNoTs(d)
    \/ PubsubCallbackExcept(d)

Next == \E d \in Deliveries : Callback(d)

Spec == Init /\ [][Next]_vars

\* a callback that has started runs to its end
FairSpec == Spec /\ \A d \in Deliveries : WF_vars(Callback(d) /\ pc[d] # "idle")

\* process_message as the handler of a delivery: the pipeline itself
Pipeline(d) ==
    \/ ProcessMessageStart(d)
    \/ DownloadJsonFiles(d)
    \/ AssembleRows(d)
    \/ GetDataset(d)
    \/ CreateDataset(d)
    \/ \E t \in Tables : GetTable(d, t)
    \/ \E t \in Tables : CreateTable(d, t)
    \/ UpdateTables(d)
    \/ InsertSales(d)
    \/ InsertItems(d)
    \/ Ack(d)

NextPM == \E d \in Deliveries : Pipeline(d)

SpecPM == InitPM /\ [][NextPM]_vars

\* One call of a function of the module on arguments drawn from its domain.
InitFn ==
    /\ fnCall \in {[NoCall EXCEPT !.fn = "get_special_multiplier", !.ts = t] :
                      t \in 0..(WeekMinutes - 1)}
                  \cup {[NoCall EXCEPT !.fn = "assemble", !.doc = s] : s \in FnScenarios}
                  \cup {[NoCall EXCEPT !.fn = "download_json_files", !.doc = s] :
                            s \in FnScenarios}
                  \cup {[NoCall EXCEPT !.fn = "extract_multiplier", !.obs = o] : o \in Notes}
    /\ store = [k \in Keys |-> IF k = "k1" THEN fnCall.doc ELSE SurveyOnly]
    /\ PipeInit
    /\ fnRet = Ret(0)

CallGetSpecialMultiplier ==
    /\ fnCall.fn = "get_special_multiplier"
    /\ ~fnCall.returned
    /\ fnRet' = get_special_multiplier(fnCall.ts)
    /\ fnCall' = [fnCall EXCEPT !.returned = TRUE]
    /\ UNCHANGED <<store, pc, msg, data, rows, log, datasetExists, tableExists,
                   salesTable, salesItemsTable>>

\* lines 532-540 for the key k1: download_json_files, then the two
\* completeness tests, process_pedido_items and prepare_sales_row
CallAssemble ==
    /\ fnCall.fn = "assemble"
    /\ ~fnCall.returned
    /\ \E notFoundResolves \in BOOLEAN :
         LET r == download_json_files(store, "k1", notFoundResolves)
         IN  fnRet' = IF IsRaise(r) THEN r ELSE Ret(Assemble(r.val, "k1", Now(1)))
    /\ fnCall' = [fnCall EXCEPT !.returned = TRUE]
    /\ UNCHANGED <<store, pc, msg, data, rows, log, datasetExists, tableExists,
                   salesTable, salesItemsTable>>

\* lines 98-118: the rate returned and whether the warning was logged
CallExtractMultiplier ==
    /\ fnCall.fn = "extract_multiplier"
    /\ ~fnCall.returned
    /\ fnRet' = Ret([rate |-> extract_multiplier(fnCall.obs),
                     warning |-> extract_multiplier_warns(fnCall.obs)])
    /\ fnCall' = [fnCall EXCEPT !.returned = TRUE]
    /\ UNCHANGED <<store, pc, msg, data, rows, log, datasetExists, tableExists,
                   salesTable, salesItemsTable>>

\* lines 178-222 for the key k1
CallDownloadJsonFiles ==
    /\ fnCall.fn = "download_json_files"
    /\ ~fnCall.returned
    /\ \E notFoundResolves \in BOOLEAN :
         fnRet' = download_json_files(store, "k1", notFoundResolves)
    /\ fnCall' = [fnCall EXCEPT !.returned = TRUE]
    /\ UNCHANGED <<store, pc, msg, data, rows, log, datasetExists, tableExists,
                   salesTable, salesItemsTable>>

NextFn ==
    \/ CallGetSpecialMultiplier
    \/ CallAssemble
    \/ CallExtractMultiplier
    \/ CallDownloadJsonFiles

SpecFn == InitFn /\ [][NextFn]_vars

\* ------------------------------------------------------------ vocabulary
Acked(d) == log[d] # <<>> /\ Last(log[d]) = "ack"
Has(l, e) == \E i \in 1..Len(l) : l[i] = e
Count(l, e) == Cardinality({i \in 1..Len(l) : l[i] = e})
\* e1 occurs in l, and e2 occurs after it
Before(l, e1, e2) == \E i, j \in 1..Len(l) : i < j /\ l[i] = e1 /\ l[j] = e2

DocsOf(d) == store[msg[d].data]
HasKey(d) == msg[d].data \in Keys
Complete(s) == s.pesquisa = "ok" /\ s.pdv = "ok" /\ s.tsTag # NoTs
HasMetadata(s, i) == s.produto[s.itens[i].idProduto] = "ok"
Retained(s) == {i \in 1..Len(s.itens) : HasMetadata(s, i)}
Dropped(s) == {i \in 1..Len(s.itens) : ~HasMetadata(s, i)}

LocalTs == convert_to_sao_paulo_time(fnCall.ts)
Returned(fn) == fnCall.fn = fn /\ fnCall.returned

RowsOf(table) == BagToSet(table)
SameOrder(r1, r2) == r1.uuid = r2.uuid /\ r1.pedido_id = r2.pedido_id
WrittenBy(d, table) == {r \in RowsOf(table) : r.processed_timestamp = Now(d)}

\* ----------------------------------------------------------------- claims

\* C1: every message delivered to pubsub_callback is eventually
\* acknowledged, whatever the outcome of its handling, and the ack is the
\* last step of the delivery: no read of the document store and no
\* warehouse call of that delivery comes after it.
C1_AckIsLast ==
    \A d \in Deliveries : \A i \in 1..Len(log[d]) :
        log[d][i] = "ack" => i = Len(log[d])
C1_DeliveredIsAckedLast ==
    /\ \A d \in Deliveries : (pc[d] # "idle") ~> (pc[d] = "done" /\ Acked(d))
    /\ []C1_AckIsLast
\* one delivery without the timestamp attribute and one whose handling
\* raised have both been acknowledged
C1_Witness ==
    \E d1, d2 \in Deliveries :
        /\ msg[d1].attr = "absent" /\ pc[d1] = "done" /\ Acked(d1)
        /\ msg[d2].attr = "ok" /\ pc[d2] = "done" /\ Acked(d2)

\* C2: a message delivered to pubsub_callback with a timestamp attribute,
\* whose key resolves to a survey document and a complete order document
\* with a timestamp tag, is correlated, then assembled, then persisted (the
\* order-table insert and the item-table insert are both issued) and only
\* then acknowledged.
C2_CompleteMessagePersistsBeforeAck ==
    \A d \in Deliveries :
        (pc[d] = "done" /\ msg[d].attr = "ok" /\ HasKey(d) /\ Complete(DocsOf(d)))
        => /\ Before(log[d], "store_read", "assemble")
           /\ Before(log[d], "assemble", "insert_sales")
           /\ Before(log[d], "insert_sales", "insert_items")
           /\ Before(log[d], "insert_items", "ack")

\* C3: for every assembled order, one with no retained item included, the
\* order row's value is the sum of produto_valor_total and its points the
\* sum of produto_pontos over the retained item rows, whatever totals the
\* order document carries.
RowSum(its, F(_)) == Sum([i \in 1..Len(its) |-> F(its[i])])
Assembles == Returned("assemble") /\ fnRet.kind = "return" /\ fnRet.val.kind = "rows"
C3_OrderTotalsAreItemSums ==
    Assembles =>
        /\ fnRet.val.sales[1].pedido_valor = RowSum(fnRet.val.itens, ValorTotalOf)
        /\ fnRet.val.sales[1].pedido_pontos = RowSum(fnRet.val.itens, PontosOf)
\* an order with line items and a total of its own is assembled with no
\* retained item: value and points are 0, not the document's total
C3_Witness ==
    /\ Assembles
    /\ fnRet.val.itens = <<>>
    /\ Len(fnCall.doc.itens) = MaxItens
    /\ fnCall.doc.totalVenda # 0
    /\ fnRet.val.sales[1].pedido_valor = 0

\* C4: when an order has a line item without a usable product document,
\* the remaining items with metadata are still assembled and the order row
\* and the retained item rows are still submitted to the warehouse.
C4_DroppedItemStillPersists ==
    \A d \in Deliveries :
        (/\ pc[d] = "done" /\ HasKey(d) /\ Has(log[d], "assemble")
         /\ Complete(DocsOf(d))
         /\ Dropped(DocsOf(d)) # {} /\ Retained(DocsOf(d)) # {})
        => Has(log[d], "warehouse") /\ Acked(d)

\* C5: when the survey document, the order document, every product
\* document or the processing timestamp is missing for the key, the
\* delivery writes no row to either table and the message is acknowledged.
NoRowWritten(d) ==
    /\ WrittenBy(d, salesTable) = {}
    /\ WrittenBy(d, salesItemsTable) = {}
ProductMissing(s) == \A p \in Pids : s.produto[p] = "absent"
InputMissing(s) == s.pesquisa = "absent" \/ s.pdv = "absent" \/ s.tsTag = NoTs
KeyBag(table, k) == [r \in {x \in RowsOf(table) : x.uuid = k} |-> table[r]]
AcceptedBy(k, e) == {d \in Deliveries : msg[d].data = k /\ Has(log[d], e)}
SameButInstant(r1, r2) ==
    [r1 EXCEPT !.processed_timestamp = 0] = [r2 EXCEPT !.processed_timestamp = 0]
C6_RedeliveryInsertsAgain ==
    \A k \in Keys :
        /\ BagCardinality(KeyBag(salesTable, k))
               = Cardinality(AcceptedBy(k, "sales_accepted"))
        /\ BagCardinality(KeyBag(salesItemsTable, k))
               = Cardinality(AcceptedBy(k, "items_accepted")) * Cardinality(Retained(store[k]))
        /\ \A r1, r2 \in RowsOf(salesTable) :
               r1.uuid = k /\ r2.uuid = k => SameButInstant(r1, r2)
\* two deliveries of one key had both inserts accepted and the order table
\* holds two rows with the same (uuid, pedido_id)
C6_Witness ==
    \E d1, d2 \in Deliveries :
        /\ d1 # d2 /\ HasKey(d1) /\ msg[d1].data = msg[d2].data
        /\ \A d \in {d1, d2} : Has(log[d], "sales_accepted") /\ Has(log[d], "items_accepted")
        /\ \E r1, r2 \in RowsOf(salesTable) :
               r1 # r2 /\ SameOrder(r1, r2) /\ r1.uuid = msg[d1].data

\* C7: in every state of the sink no two rows of the order table share
\* (uuid, pedido_id) and no two rows of the item table share
\* (uuid, pedido_id, produto_idProduto).
C7_PrimaryKeysUnique ==
    /\ \A r1, r2 \in RowsOf(salesTable) : SameOrder(r1, r2) => r1 = r2
    /\ \A r \in RowsOf(salesTable) : CopiesIn(r, salesTable) = 1
    /\ \A r1, r2 \in RowsOf(salesItemsTable) :
           (SameOrder(r1, r2) /\ r1.produto_idProduto = r2.produto_idProduto) => r1 = r2
    /\ \A r \in RowsOf(salesItemsTable) : CopiesIn(r, salesItemsTable) = 1

InWarehouseWriter(d) ==
    pc[d] \in {"bq_get_dataset", "bq_create_dataset", "bq_get_sales", "bq_create_sales",
               "bq_get_sales_items", "bq_create_sales_items", "bq_update",
               "bq_insert_sales", "bq_insert_items"}
C9_WarehouseFailureIsAckedOnce ==
    \A d \in Deliveries :
        /\ Count(log[d], "insert_sales") <= 1
        /\ Count(log[d], "insert_items") <= 1
        /\ (Has(log[d], "warehouse") /\ ~InWarehouseWriter(d))
           => pc[d] = "pm_ack" \/ (pc[d] = "done" /\ Acked(d))
\* a delivery whose order insert raised, one whose provisioning raised and
\* so issued no insert: both acknowledged
C9_Witness ==
    \E d1, d2 \in Deliveries :
        /\ pc[d1] = "done" /\ Acked(d1)
        /\ Has(log[d1], "insert_sales") /\ ~Has(log[d1], "insert_items")
        /\ pc[d2] = "done" /\ Acked(d2)
        /\ Has(log[d2], "warehouse") /\ ~Has(log[d2], "insert_sales")

\* C10: the situational rate is the sum of the rates whose windows match;
\* for a timestamp that is Friday 06:00 in Sao Paulo get_special_multiplier
\* returns MORNING_MULTIPLIER + HAPPYHOUR_MULTIPLIER.
FridaySix == 4 * DayMinutes + 6 * 60
MorningMatches(ts) == InMorningWindow(5 * 60, 10 * 60, TimeOfDay(ts))
HappyHourMatches(ts) == InHappyHourWindow(18 * 60, 22 * 60, Weekday(ts), TimeOfDay(ts))
WindowRates(ts) ==
    (IF MorningMatches(ts) THEN MORNING_MULTIPLIER ELSE 0)
    + (IF HappyHourMatches(ts) THEN HAPPYHOUR_MULTIPLIER ELSE 0)
C11_WindowsOnLocalTime ==
    Returned("get_special_multiplier") => fnRet = Ret(WindowRates(LocalTs))

\* C12: in the end-to-end scenario (one survey document, one order document
\* tagged 2024-03-01T07:30:00Z with two line items, metadata for one of the
\* two products, loyalty rate 0.02 and morning rate 0.03) the retained
\* item's final multiplier is 0.05 plus its embedded rate, the other item is
\* dropped, and the order row's value and points are the retained item's.
WithMetadata(s) == {p \in Pids : s.produto[p] = "ok"}
EndToEnd(s) ==
    /\ s.pesquisa = "ok" /\ s.pdv = "ok" /\ s.tsTag = Fri0730Z
    /\ Len(s.itens) = 2 /\ s.itens[1].idProduto # s.itens[2].idProduto
    /\ Cardinality(WithMetadata(s)) = 1
    /\ \A p \in Pids \ WithMetadata(s) : s.produto[p] = "absent"
EndToEndReturned == Returned("assemble") /\ EndToEnd(fnCall.doc)
EmbeddedRates(itens) == {0} \cup {itens[i].produto_multiplier : i \in 1..Len(itens)}
C13_OrderPointsAreValueTimesMultiplier ==
    Assembles =>
        LET order == fnRet.val.sales[1]
        IN  /\ {"special_multiplier", "final_multiplier"} \subseteq DOMAIN order
            /\ \E p \in EmbeddedRates(fnRet.val.itens) :
                   order.final_multiplier
                       = order.fidelidade_multiplier + order.special_multiplier + p
            /\ order.pedido_pontos = order.pedido_valor * order.final_multiplier

MarkerAt(obs) == {i \in 1..Len(obs) : obs[i].marker}
Least(S) == CHOOSE m \in S : \A x \in S : m <= x
C15_MinimumAndWarningOnMultiple ==
    Returned("extract_multiplier") =>
        LET at == MarkerAt(fnCall.obs)
        IN  /\ fnRet.val.rate = IF at = {} THEN 0 ELSE Least({fnCall.obs[i].val : i \in at})
            /\ fnRet.val.warning <=> Cardinality(at) > 1

\* C16: provisioning is safe under concurrency: an invocation whose create
\* call is answered "already exists", because a concurrent invocation
\* created the dataset or the table first, takes the answer as success and
\* goes on to insert its rows.
C16_AlreadyExistsIsSuccess ==
    \A d \in Deliveries :
        (Has(log[d], "conflict") /\ ~InWarehouseWriter(d)) => Has(log[d], "insert_sales")

\* C17: in download_json_files a stored object of the key whose content is
\* not valid JSON counts as absent for its own role only: no exception
\* leaves the correlator, and the documents of the other roles and the
\* timestamp tag of the order blob are returned as stored.
Parsed(state, content) == IF state \in {"incomplete", "ok"} THEN {content} ELSE {}
Usable(doc) == IF Truthy(doc) THEN {doc} ELSE {}
C17_MalformedIsAbsentForItsRole ==
    Returned("download_json_files") =>
        LET s == fnCall.doc
        IN  /\ fnRet.kind = "return"
            /\ Usable(fnRet.val.pesquisa) = Parsed(s.pesquisa, Doc(s.pesquisa, <<>>, 0, <<>>))
            /\ Usable(fnRet.val.pdv) = Parsed(s.pdv, Doc(s.pdv, s.itens, s.totalVenda, <<>>))
            /\ fnRet.val.processing_timestamp = s.tsTag
            /\ \A p \in Pids :
                   Usable(fnRet.val.produto[p])
                       = Parsed(s.produto[p], Doc(s.produto[p], <<>>, 0, ObsOf(p)))

\* C18: every order row built by prepare_sales_row has a value for every
\* REQUIRED column of sales_schema and every item row built by
\* process_pedido_item one for every REQUIRED column of sales_items_schema,
\* under the column names of the schema and no other.
RequiredColumns(schema) == {f.name : f \in {g \in schema : g.mode = "REQUIRED"}}
Columns(schema) == {f.name : f \in schema}
Conforms(row, schema) ==
    /\ RequiredColumns(schema) \subseteq DOMAIN row
    /\ DOMAIN row \subseteq Columns(schema)
C18_RowsSupplyRequiredColumns ==
    Assembles =>
        /\ Conforms(fnRet.val.sales[1], sales_schema)
        /\ \A i \in 1..Len(fnRet.val.itens) : Conforms(fnRet.val.itens[i], sales_items_schema)
====
